---- MODULE Spec2Model ----
(***************************************************************************)
(* Model of news_bot.py: one run of main() over a news feed.               *)
(*                                                                         *)
(* Text.  A Python str is modelled as a sequence of chunks.  A chunk       *)
(*   [src, idx, len, of]  stands for the first `len` characters of a piece *)
(* of text that is `of` characters long: a literal of the source (src      *)
(* names it), the title or link of feed entry idx, the text of paragraph   *)
(* idx of a page, a model response, an error detail.  No chunk has         *)
(* len = 0, so the empty str is the empty sequence.  len(s) is the sum of  *)
(* the chunk lengths, s + t is s \o t, s[:n] cuts chunks (Slice), and a    *)
(* text occurs in s when its chunks occur whole and adjacent (Includes).   *)
(* All lengths are code points, as Python's len counts them.               *)
(***************************************************************************)
EXTENDS Integers, Sequences, FiniteSets, TLC

\* ------------------------------------------------------------------ bounds
\* Entries a feed may hold.
MaxEntries == 4
\* Longest title of a feed entry.
MaxTitleLen == 2
\* Length of every entry link.
UrlLen == 3
\* Paragraph elements a page's strategy may select.
MaxParas == 2
\* Length of the detail str(e) of an API exception.
ErrLen == 5
\* Largest count get_latest_news_from_rss is called with by itself.
MaxCount == 4

\* ------------------------------------------------------- program constants
\* count=3 in main's call of get_latest_news_from_rss.
COUNT == 3
\* MAX_CHARS of scrape_article_body.
MAX_CHARS == 3000
\* The cut applied to final_message.
DIGEST_LIMIT == 4800
\* The platform's maximum message length named at the cut.
LINE_MAX == 5000
\* len() of the literals of the source.
LEN_FALLBACK == 19
LEN_HDR_PRE == 7
LEN_HDR_MID == 3
LEN_NL == 1
LEN_SCRAPE_ERR == 26
LEN_URL_PRE == 10
LEN_SEP == 38
LEN_BANNER_PRE == 12
LEN_BANNER_POST == 5
LEN_RULE_TOP == 36
LEN_FOOTER == 36
LEN_TRUNC == 28
LEN_ELLIPSIS == 3
LEN_SENTINEL == 27
LEN_API_ERR == 25

\* ------------------------------------------------------------------- text
Chunk(src, idx, n) == [src |-> src, idx |-> idx, len |-> n, of |-> n]

\* The text of n characters named (src, idx); "" when n = 0.
Str(src, idx, n) == IF n = 0 THEN <<>> ELSE <<Chunk(src, idx, n)>>

Lit(name, n) == Str(name, 0, n)

RECURSIVE StrLen(_)
StrLen(s) == IF s = <<>> THEN 0 ELSE Head(s).len + StrLen(Tail(s))

\* s[:n]
RECURSIVE Slice(_, _)
Slice(s, n) ==
    IF s = <<>> \/ n <= 0 THEN <<>>
    ELSE IF Head(s).len <= n
         THEN <<Head(s)>> \o Slice(Tail(s), n - Head(s).len)
         ELSE <<[Head(s) EXCEPT !.len = n]>>

\* t in s, for a non-empty t.
Includes(s, t) ==
    \E j \in 0..(Len(s) - Len(t)) : SubSeq(s, j + 1, j + Len(t)) = t

\* len(str(k)) for k >= 0.
RECURSIVE DecLen(_)
DecLen(k) == IF k < 10 THEN 1 ELSE 1 + DecLen(k \div 10)

\* f"{k}"
Num(k) == Str("num", k, DecLen(k))

\* An optional str: None, or a str (possibly "").
None == [some |-> FALSE, text |-> <<>>]
Some(t) == [some |-> TRUE, text |-> t]

\* `not v` for an optional str: None and "" are both falsy.
Falsy(v) == ~v.some \/ v.text = <<>>

Min(a, b) == IF a < b THEN a ELSE b

\* ------------------------------------------------------------- FeedReader
\* A feed as feedparser hands it over: parse() raised or not, and the
\* entries in feed order.  Entry id is its position in the feed; an entry
\* with bad = TRUE lacks title or link, so reading it raises.
\* Titles are the shortest and the longest the bound allows.
TitleLens == {1, MaxTitleLen}

FeedEntry(id, tl, bad) == [id |-> id, title_len |-> tl, bad |-> bad]

EntryLists ==
    UNION {[1..n -> TitleLens \X BOOLEAN] : n \in 0..MaxEntries}

Feeds ==
    {[raises |-> r,
      entries |-> [k \in DOMAIN es |-> FeedEntry(k, es[k][1], es[k][2])]] :
        r \in BOOLEAN, es \in EntryLists}

\* {'title': entry.title, 'url': entry.link}
NewsItem(entry) ==
    [title |-> Str("title", entry.id, entry.title_len),
     url |-> Str("url", entry.id, UrlLen)]

\* feed.entries[:count]
FirstEntries_OneShort(entries, count) ==
    SubSeq(entries, 1, Min(count, Len(entries)) - 1)

FirstEntries(entries, count) == SubSeq(entries, 1, Min(count, Len(entries)))

get_latest_news_from_rss_Partial(feed, count) ==
    IF feed.raises THEN <<>>
    ELSE IF feed.entries = <<>> THEN <<>>
    ELSE LET taken == FirstEntries(feed.entries, count)
             good == {k \in DOMAIN taken : \A j \in 1..k : ~taken[j].bad}
         IN [k \in 1..Cardinality(good) |-> NewsItem(taken[k])]

get_latest_news_from_rss(feed, count) ==
    IF feed.raises THEN <<>>
    ELSE IF feed.entries = <<>> THEN <<>>
    ELSE LET taken == FirstEntries(feed.entries, count)
         IN IF \E k \in DOMAIN taken : taken[k].bad
            THEN <<>>
            ELSE [k \in DOMAIN taken |-> NewsItem(taken[k])]

\* ------------------------------------------------------- ArticleExtractor
\* A fetched page: status of the GET and of the parse, the stripped text
\* lengths of the p elements whose class matches, the article_body div (if
\* any) with those of its p children, the main element (if any) with the
\* length of its text, and the length of the text of the whole page.
ParaLens == {0, 1, MAX_CHARS - 2, MAX_CHARS, MAX_CHARS + 1}

ParaLists(maxp) == UNION {[1..n -> ParaLens] : n \in 0..maxp}

RegionLens == {0, 1, MAX_CHARS, MAX_CHARS + 1, 2 * MAX_CHARS}

Page(st, cp, dp, ds, mp, ml, fl) ==
    [status |-> st, class_ps |-> cp,
     div |-> [present |-> dp, ps |-> ds],
     main |-> [present |-> mp, len |-> ml],
     full |-> fl]

RECURSIVE SumOf(_)
SumOf(ps) == IF ps = <<>> THEN 0 ELSE Head(ps) + SumOf(Tail(ps))

\* Pages that failed to load or to parse.
FailedPages ==
    {Page(st, <<>>, FALSE, <<>>, FALSE, 0, 0) : st \in {"http_error", "exception"}}

\* Pages with class-matched paragraphs.
ClassPages(maxp) ==
    {Page("ok", ps, FALSE, <<>>, FALSE, 0, SumOf(ps)) : ps \in ParaLists(maxp) \ {<<>>}}

\* Pages without them, with an article_body div that has paragraphs.
DivPages(maxp) ==
    {Page("ok", <<>>, TRUE, ps, FALSE, 0, SumOf(ps)) : ps \in ParaLists(maxp) \ {<<>>}}

\* Pages with no paragraph to select: with or without an (empty) div, with
\* or without a main element.
PlainPages ==
    {Page("ok", <<>>, dp, <<>>, TRUE, ml, ml) : dp \in BOOLEAN, ml \in RegionLens}
    \cup {Page("ok", <<>>, dp, <<>>, FALSE, 0, fl) : dp \in BOOLEAN, fl \in RegionLens}

Pages(maxp) == FailedPages \cup ClassPages(maxp) \cup DivPages(maxp) \cup PlainPages

\* Lines 87-92: the paragraphs the selectors settle on.
SelectParagraphs(page) ==
    IF page.class_ps # <<>> THEN page.class_ps
    ELSE IF page.div.present THEN page.div.ps
    ELSE <<>>

\* Line 97: the text of main, or of the whole page.
FallbackText(page) ==
    IF page.main.present THEN Str("main", 0, page.main.len)
    ELSE Str("full", 0, page.full)

\* Line 99: "\n".join of the non-empty paragraph texts; k counts the
\* paragraphs already passed.
RECURSIVE JoinFrom(_, _, _)
JoinFrom(ps, k, first) ==
    IF ps = <<>> THEN <<>>
    ELSE IF Head(ps) = 0 THEN JoinFrom(Tail(ps), k + 1, first)
    ELSE (IF first THEN <<>> ELSE Lit("\n", LEN_NL))
         \o Str("p", k + 1, Head(ps))
         \o JoinFrom(Tail(ps), k + 1, FALSE)

JoinParagraphs(ps) == JoinFrom(ps, 0, TRUE)

\* Lines 102-104.
CapText(article_text) ==
    IF StrLen(article_text) > MAX_CHARS
    THEN Slice(article_text, MAX_CHARS) \o Lit("...", LEN_ELLIPSIS)
    ELSE article_text

scrape_article_body(page) ==
    IF page.status # "ok" THEN None
    ELSE LET paragraphs == SelectParagraphs(page)
         IN IF paragraphs = <<>>
            THEN Some(FallbackText(page))
            ELSE Some(CapText(JoinParagraphs(paragraphs)))

\* ------------------------------------------------------------- Summarizer
\* What the chat-completion call does: it raises, or it answers with a
\* content of `core` characters between leading and trailing whitespace.
\* response.choices[0].message.content
Content(api) ==
    Str("ws", 0, api.lead) \o Str("summary", api.id, api.core) \o Str("ws", 1, api.trail)

\* str.strip(): without the leading and trailing whitespace.
Strip(s) == SelectSeq(s, LAMBDA c : c.src # "ws")

\* The result, and the number of calls of the external model made.
summarize_and_add_furigana_NoDetail(title, article_text, api) ==
    IF Falsy(article_text)
    THEN [text |-> Lit("sentinel", LEN_SENTINEL), model_calls |-> 0]
    ELSE IF api.kind = "ok"
    THEN [text |-> Strip(Content(api)), model_calls |-> 1]
    ELSE [text |-> Lit("api_err", LEN_API_ERR), model_calls |-> 1]

summarize_and_add_furigana_Retry(title, article_text, api) ==
    IF Falsy(article_text)
    THEN [text |-> Lit("sentinel", LEN_SENTINEL), model_calls |-> 0]
    ELSE IF api.kind = "ok"
    THEN [text |-> Strip(Content(api)), model_calls |-> 1]
    ELSE [text |-> Lit("api_err", LEN_API_ERR) \o Str("err", api.id, ErrLen),
          model_calls |-> 2]

summarize_and_add_furigana(title, article_text, api) ==
    IF Falsy(article_text)
    THEN [text |-> Lit("sentinel", LEN_SENTINEL), model_calls |-> 0]
    ELSE IF api.kind = "ok"
    THEN [text |-> Strip(Content(api)), model_calls |-> 1]
    ELSE [text |-> Lit("api_err", LEN_API_ERR) \o Str("err", api.id, ErrLen),
          model_calls |-> 1]

\* --------------------------------------------------------------- Notifier
\* What requests.post does: it raises a transport error, or it returns a
\* response whose final status is of one of these classes.
HttpOutcomes == {"2xx", "3xx", "4xx", "5xx", "transport_error"}

\* Line 203: raise_for_status() raises HTTPError for 400 <= status < 600.
RaisesForStatus(http) == http \in {"4xx", "5xx"}

\* The result, and the messages POSTed.
send_line_message_PostsAnyway(user_id, message, token, http) ==
    [ok |-> user_id /\ token /\ http # "transport_error" /\ ~RaisesForStatus(http),
     posts |-> <<message>>]

send_line_message(user_id, message, token, http) ==
    IF ~user_id \/ ~token
    THEN [ok |-> FALSE, posts |-> <<>>]
    ELSE [ok |-> (http # "transport_error" /\ ~RaisesForStatus(http)),
          posts |-> <<message>>]

\* ----------------------------------------------------------- Orchestrator
\* Line 244: `not article_text`.
ExtractionFailed_Never(article_text) == FALSE

ExtractionFailed_OnlyNone(article_text) == ~article_text.some

ExtractionFailed(article_text) == Falsy(article_text)

\* Line 242.
BlockHeader(i, title) ==
    Lit("hdr_pre", LEN_HDR_PRE) \o Num(i + 1) \o Lit("hdr_mid", LEN_HDR_MID)
    \o title \o Lit("\n", LEN_NL)

\* Line 246.
ScrapeErrorNotice == Lit("scrape_err", LEN_SCRAPE_ERR)

\* Line 252.
UrlLine_NoUrl(url) == Lit("url_pre", LEN_URL_PRE)

UrlLine(url) == Lit("url_pre", LEN_URL_PRE) \o url

\* Line 262: separator.join(blocks).
RECURSIVE JoinBlocks(_)
JoinBlocks(blocks) ==
    IF blocks = <<>> THEN <<>>
    ELSE IF Len(blocks) = 1 THEN blocks[1]
    ELSE blocks[1] \o Lit("sep", LEN_SEP) \o JoinBlocks(Tail(blocks))

\* Lines 263-268.
AssembleDigest(n, blocks) ==
    Lit("banner_pre", LEN_BANNER_PRE) \o Num(n) \o Lit("banner_post", LEN_BANNER_POST)
    \o Lit("rule_top", LEN_RULE_TOP)
    \o JoinBlocks(blocks)
    \o Lit("footer", LEN_FOOTER)

TruncationMarker == Lit("trunc", LEN_TRUNC)

\* Lines 271-272.
TruncateDigest_Never(msg) == msg

TruncateDigest_OffByOne(msg) ==
    IF StrLen(msg) >= DIGEST_LIMIT
    THEN Slice(msg, DIGEST_LIMIT) \o TruncationMarker
    ELSE msg

TruncateDigest_AtPlatformMax(msg) ==
    IF StrLen(msg) > LINE_MAX
    THEN Slice(msg, LINE_MAX) \o TruncationMarker
    ELSE msg

TruncateDigest(msg) ==
    IF StrLen(msg) > DIGEST_LIMIT
    THEN Slice(msg, DIGEST_LIMIT) \o TruncationMarker
    ELSE msg

FallbackMessage == Lit("fallback", LEN_FALLBACK)

\* ----------------------------------------------------------------- inputs
\* The summary length with which a digest of one item (title of one
\* character) is exactly DIGEST_LIMIT characters long.
SummaryFit ==
    DIGEST_LIMIT
    - StrLen(AssembleDigest(1, <<BlockHeader(0, Str("title", 1, 1))
                                  \o UrlLine(Str("url", 1, UrlLen))>>))

SummaryLens == {0, 1, SummaryFit, SummaryFit + 1}

ApiOutcomes(id) ==
    {[kind |-> "raise", id |-> id, lead |-> 0, core |-> 0, trail |-> 0]}
    \cup {[kind |-> "ok", id |-> id, lead |-> l, core |-> c, trail |-> t] :
            l \in 0..1, c \in SummaryLens, t \in 0..1}

\* The pages main's runs meet: every path of the extractor, with at most
\* one paragraph selected.
MainPages == Pages(1)

\* ------------------------------------------------------------------ state
VARIABLES
    pc,                         \* where main() stands
    LINE_USER_ID,               \* environment: set (TRUE) or missing
    LINE_CHANNEL_ACCESS_TOKEN,  \* environment: set (TRUE) or missing
    news_list,
    i,                          \* loop index of enumerate(news_list)
    article_text,               \* of the item in hand
    article_summary_block,      \* of the item in hand
    all_summaries,
    final_message,
    sum_arg,                    \* arguments of the Summarizer call of the item in hand
    sent,                       \* messages handed to send_line_message
    posted,                     \* messages POSTed to the push endpoint
    send_result,                \* what send_line_message returned
    log,                        \* the external calls and steps so far, in order
    outcomes,                   \* per item: what its extraction and summarization gave
    ext_pc, ext_page, ext_result, \* a single call of scrape_article_body
    fn_pc, fn_in, fn_out        \* a single call of one of the other functions

main_vars ==
    <<pc, LINE_USER_ID, LINE_CHANNEL_ACCESS_TOKEN, news_list, i, article_text,
      article_summary_block, all_summaries, final_message, sum_arg, sent,
      posted, send_result, log, outcomes>>

fn_vars == <<fn_pc, fn_in, fn_out>>

ext_vars == <<ext_pc, ext_page, ext_result, fn_vars>>

vars == <<main_vars, ext_vars>>

Event(ev, k) == [ev |-> ev, i |-> k]

\* How often event (ev, k) is in the log.
Count(ev, k) == Cardinality({j \in DOMAIN log : log[j] = Event(ev, k)})

\* How often an event named ev is in the log.
CountAll(ev) == Cardinality({j \in DOMAIN log : log[j].ev = ev})

\* What the extractor returned: absent (None), empty ("") or text.
ResultKind(v) == IF ~v.some THEN "absent" ELSE IF v.text = <<>> THEN "empty" ELSE "text"

\* What item's extraction gave (absent, empty or text) and the text its
\* Summarizer call returned (<<>> while there was none).
Outcome(kind, summary) == [kind |-> kind, summary |-> summary]

\* How get_latest_news_from_rss's reading of a feed goes: parse() raises,
\* the feed has no entry, one of the entries read lacks title or link, or
\* all is read.
FeedKind(feed, count) ==
    IF feed.raises THEN "feed_raised"
    ELSE IF feed.entries = <<>> THEN "feed_empty"
    ELSE IF \E k \in 1..Min(count, Len(feed.entries)) : feed.entries[k].bad
    THEN "feed_bad_entry"
    ELSE "feed_read"

NoArg == [called |-> FALSE, title |-> <<>>, text |-> None]

MainIdle ==
    /\ news_list = <<>>
    /\ i = 0
    /\ article_text = None
    /\ article_summary_block = <<>>
    /\ all_summaries = <<>>
    /\ final_message = <<>>
    /\ sum_arg = NoArg
    /\ sent = <<>>
    /\ posted = <<>>
    /\ send_result = "none"
    /\ log = <<>>
    /\ outcomes = <<>>

FnIdle ==
    /\ fn_pc = "off"
    /\ fn_in = <<>>
    /\ fn_out = <<>>

ExtIdle ==
    /\ ext_pc = "off"
    /\ ext_page = Page("ok", <<>>, FALSE, <<>>, FALSE, 0, 0)
    /\ ext_result = None
    /\ FnIdle

\* The process has started with its environment read (lines 24-27).
Init ==
    /\ pc = "FETCH_FEED"
    /\ LINE_USER_ID \in BOOLEAN
    /\ LINE_CHANNEL_ACCESS_TOKEN \in BOOLEAN
    /\ MainIdle
    /\ ExtIdle

\* send_line_message(LINE_USER_ID, message, LINE_CHANNEL_ACCESS_TOKEN) and
\* the log of it.
Send_Retry(message, http) ==
    LET r == send_line_message(LINE_USER_ID, message, LINE_CHANNEL_ACCESS_TOKEN, http)
        times == IF r.ok THEN <<message>> ELSE <<message, message>>
    IN /\ sent' = sent \o times
       /\ posted' = posted \o r.posts \o r.posts
       /\ send_result' = (IF r.ok THEN "ok" ELSE "failed")
       /\ log' = log \o [k \in DOMAIN times |-> Event("send", 0)]

Send(message, http) ==
    LET r == send_line_message(LINE_USER_ID, message, LINE_CHANNEL_ACCESS_TOKEN, http)
    IN /\ sent' = Append(sent, message)
       /\ posted' = posted \o r.posts
       /\ send_result' = (IF r.ok THEN "ok" ELSE "failed")
       /\ log' = log \o <<Event("send", 0)>>
                     \o (IF r.posts = <<>> THEN <<>> ELSE <<Event("post", 0)>>)

\* Lines 222-224.
FetchFeed ==
    /\ pc = "FETCH_FEED"
    /\ \E feed \in Feeds :
         /\ news_list' = get_latest_news_from_rss(feed, COUNT)
         /\ pc' = IF news_list' = <<>> THEN "NOTIFY_FAILURE" ELSE "PER_ITEM_LOOP"
         /\ log' = log \o <<Event("feed", 0), Event(FeedKind(feed, COUNT), 0)>>
    /\ UNCHANGED <<LINE_USER_ID, LINE_CHANNEL_ACCESS_TOKEN, i, article_text,
                   article_summary_block, all_summaries, final_message, sum_arg,
                   sent, posted, send_result, outcomes, ext_vars>>

\* Lines 225-226.
NotifyFailure_NoReturn ==
    /\ pc = "NOTIFY_FAILURE"
    /\ \E http \in HttpOutcomes : Send(FallbackMessage, http)
    /\ pc' = "ASSEMBLE"
    /\ UNCHANGED <<LINE_USER_ID, LINE_CHANNEL_ACCESS_TOKEN, news_list, i,
                   article_text, article_summary_block, all_summaries,
                   final_message, sum_arg, outcomes, ext_vars>>

NotifyFailure ==
    /\ pc = "NOTIFY_FAILURE"
    /\ \E http \in HttpOutcomes : Send(FallbackMessage, http)
    /\ pc' = "DONE"
    /\ UNCHANGED <<LINE_USER_ID, LINE_CHANNEL_ACCESS_TOKEN, news_list, i,
                   article_text, article_summary_block, all_summaries,
                   final_message, sum_arg, outcomes, ext_vars>>

\* Lines 233-246: the item's page is fetched and its block begun.
Extract ==
    /\ pc = "PER_ITEM_LOOP"
    /\ \E page \in MainPages :
         /\ article_text' = scrape_article_body(page)
         /\ article_summary_block' =
              BlockHeader(i, news_list[i + 1].title)
              \o (IF ExtractionFailed(article_text') THEN ScrapeErrorNotice ELSE <<>>)
         /\ pc' = IF ExtractionFailed(article_text') THEN "APPEND" ELSE "SUMMARIZE"
         /\ log' = log \o <<Event("extract", i), Event(ResultKind(article_text'), i)>>
         /\ outcomes' = Append(outcomes, Outcome(ResultKind(article_text'), <<>>))
    /\ UNCHANGED <<LINE_USER_ID, LINE_CHANNEL_ACCESS_TOKEN, news_list, i,
                   all_summaries, final_message, sum_arg, sent, posted,
                   send_result, ext_vars>>

\* Lines 249-250.
Summarize ==
    /\ pc = "SUMMARIZE"
    /\ \E api \in ApiOutcomes(i) :
         LET title == news_list[i + 1].title
             r == summarize_and_add_furigana(title, article_text, api)
         IN /\ article_summary_block' = article_summary_block \o r.text
            /\ sum_arg' = [called |-> TRUE, title |-> title, text |-> article_text]
            /\ log' = log \o <<Event("summarize", i)>>
                          \o [j \in 1..r.model_calls |-> Event("model", i)]
                          \o (IF r.model_calls > 0 /\ api.kind = "raise"
                              THEN <<Event("api_raised", i)>> ELSE <<>>)
            /\ outcomes' = [outcomes EXCEPT ![i + 1].summary = r.text]
    /\ pc' = "APPEND"
    /\ UNCHANGED <<LINE_USER_ID, LINE_CHANNEL_ACCESS_TOKEN, news_list, i,
                   article_text, all_summaries, final_message, sent, posted,
                   send_result, ext_vars>>

\* Lines 252-257.  article_text, article_summary_block and the call's
\* arguments are not read again before line 239 and 242 rebind them; they
\* are let go here.
AppendBlock_BreakOnFailure ==
    /\ pc = "APPEND"
    /\ all_summaries' =
         Append(all_summaries, article_summary_block \o UrlLine(news_list[i + 1].url))
    /\ article_text' = None
    /\ article_summary_block' = <<>>
    /\ sum_arg' = NoArg
    /\ log' = Append(log, Event("block", i))
    /\ pc' = IF i < Len(news_list) - 1 /\ sum_arg.called THEN "SLEEP" ELSE "ASSEMBLE"
    /\ UNCHANGED <<LINE_USER_ID, LINE_CHANNEL_ACCESS_TOKEN, news_list, i,
                   final_message, sent, posted, send_result, outcomes, ext_vars>>

AppendBlock_SleepsAfterLast ==
    /\ pc = "APPEND"
    /\ all_summaries' =
         Append(all_summaries, article_summary_block \o UrlLine(news_list[i + 1].url))
    /\ article_text' = None
    /\ article_summary_block' = <<>>
    /\ sum_arg' = NoArg
    /\ log' = log \o <<Event("block", i)>>
                  \o (IF i < Len(news_list) - 1 THEN <<>> ELSE <<Event("sleep", i)>>)
    /\ pc' = IF i < Len(news_list) - 1 THEN "SLEEP" ELSE "ASSEMBLE"
    /\ UNCHANGED <<LINE_USER_ID, LINE_CHANNEL_ACCESS_TOKEN, news_list, i,
                   final_message, sent, posted, send_result, outcomes, ext_vars>>

AppendBlock_Prefetch ==
    /\ pc = "APPEND"
    /\ all_summaries' =
         Append(all_summaries, article_summary_block \o UrlLine(news_list[i + 1].url))
    /\ article_text' = None
    /\ article_summary_block' = <<>>
    /\ sum_arg' = NoArg
    /\ log' = log \o (IF i < Len(news_list) - 1 THEN <<Event("extract", i + 1)>> ELSE <<>>)
                  \o <<Event("block", i)>>
    /\ pc' = IF i < Len(news_list) - 1 THEN "SLEEP" ELSE "ASSEMBLE"
    /\ UNCHANGED <<LINE_USER_ID, LINE_CHANNEL_ACCESS_TOKEN, news_list, i,
                   final_message, sent, posted, send_result, outcomes, ext_vars>>

AppendBlock_Cumulative ==
    /\ pc = "APPEND"
    /\ all_summaries' =
         Append(all_summaries,
                (IF all_summaries = <<>> THEN <<>> ELSE all_summaries[Len(all_summaries)])
                \o article_summary_block \o UrlLine(news_list[i + 1].url))
    /\ article_text' = None
    /\ article_summary_block' = <<>>
    /\ sum_arg' = NoArg
    /\ log' = Append(log, Event("block", i))
    /\ pc' = IF i < Len(news_list) - 1 THEN "SLEEP" ELSE "ASSEMBLE"
    /\ UNCHANGED <<LINE_USER_ID, LINE_CHANNEL_ACCESS_TOKEN, news_list, i,
                   final_message, sent, posted, send_result, outcomes, ext_vars>>

AppendBlock ==
    /\ pc = "APPEND"
    /\ all_summaries' =
         Append(all_summaries, article_summary_block \o UrlLine(news_list[i + 1].url))
    /\ article_text' = None
    /\ article_summary_block' = <<>>
    /\ sum_arg' = NoArg
    /\ log' = Append(log, Event("block", i))
    /\ pc' = IF i < Len(news_list) - 1 THEN "SLEEP" ELSE "ASSEMBLE"
    /\ UNCHANGED <<LINE_USER_ID, LINE_CHANNEL_ACCESS_TOKEN, news_list, i,
                   final_message, sent, posted, send_result, outcomes, ext_vars>>

\* Line 258, and the loop's step to the next item.
Sleep_NoDelay ==
    /\ pc = "SLEEP"
    /\ log' = log
    /\ i' = i + 1
    /\ pc' = "PER_ITEM_LOOP"
    /\ UNCHANGED <<LINE_USER_ID, LINE_CHANNEL_ACCESS_TOKEN, news_list,
                   article_text, article_summary_block, all_summaries,
                   final_message, sum_arg, sent, posted, send_result, outcomes, ext_vars>>

Sleep ==
    /\ pc = "SLEEP"
    /\ log' = Append(log, Event("sleep", i))
    /\ i' = i + 1
    /\ pc' = "PER_ITEM_LOOP"
    /\ UNCHANGED <<LINE_USER_ID, LINE_CHANNEL_ACCESS_TOKEN, news_list,
                   article_text, article_summary_block, all_summaries,
                   final_message, sum_arg, sent, posted, send_result, outcomes, ext_vars>>

\* Lines 262-272.
Assemble ==
    /\ pc = "ASSEMBLE"
    /\ final_message' = TruncateDigest(AssembleDigest(Len(news_list), all_summaries))
    /\ pc' = "NOTIFY"
    /\ UNCHANGED <<LINE_USER_ID, LINE_CHANNEL_ACCESS_TOKEN, news_list, i,
                   article_text, article_summary_block, all_summaries, sum_arg,
                   sent, posted, send_result, log, outcomes, ext_vars>>

Notify_Escalate ==
    /\ pc = "NOTIFY"
    /\ \E http \in HttpOutcomes : Send(final_message, http)
    /\ pc' = IF send_result' = "failed" THEN "NOTIFY_FAILURE" ELSE "DONE"
    /\ UNCHANGED <<LINE_USER_ID, LINE_CHANNEL_ACCESS_TOKEN, news_list, i,
                   article_text, article_summary_block, all_summaries,
                   final_message, sum_arg, outcomes, ext_vars>>

\* Lines 274-276.
Notify ==
    /\ pc = "NOTIFY"
    /\ \E http \in HttpOutcomes : Send(final_message, http)
    /\ pc' = "DONE"
    /\ UNCHANGED <<LINE_USER_ID, LINE_CHANNEL_ACCESS_TOKEN, news_list, i,
                   article_text, article_summary_block, all_summaries,
                   final_message, sum_arg, outcomes, ext_vars>>

Next ==
    \/ FetchFeed
    \/ NotifyFailure
    \/ Extract
    \/ Summarize
    \/ AppendBlock
    \/ Sleep
    \/ Assemble
    \/ Notify

Spec == Init /\ [][Next]_vars

\* main() is one sequential thread: whenever a next statement exists it is
\* executed, each blocking call (feed read, page fetch, model call, sleep,
\* POST) being taken to return.
SpecFair == Spec /\ WF_vars(Next)

\* ------------------------------------------- scrape_article_body, by itself
\* One call of scrape_article_body on any page of the bounded set.
InitExtract ==
    /\ pc = "OFF"
    /\ LINE_USER_ID = FALSE
    /\ LINE_CHANNEL_ACCESS_TOKEN = FALSE
    /\ MainIdle
    /\ ext_pc = "call"
    /\ ext_page \in Pages(MaxParas)
    /\ ext_result = None
    /\ FnIdle

ExtractCall ==
    /\ ext_pc = "call"
    /\ ext_result' = scrape_article_body(ext_page)
    /\ ext_pc' = "returned"
    /\ UNCHANGED <<main_vars, ext_page, fn_vars>>

NextExtract == ExtractCall

SpecExtract == InitExtract /\ [][NextExtract]_vars

\* ------------------------------------- get_latest_news_from_rss, by itself
\* One call of get_latest_news_from_rss(url, count) on any feed of the
\* bounded set, with any count from 0 to MaxCount.
InitFeed ==
    /\ pc = "OFF"
    /\ LINE_USER_ID = FALSE
    /\ LINE_CHANNEL_ACCESS_TOKEN = FALSE
    /\ MainIdle
    /\ ext_pc = "off"
    /\ ext_page = Page("ok", <<>>, FALSE, <<>>, FALSE, 0, 0)
    /\ ext_result = None
    /\ fn_pc = "call"
    /\ fn_in \in [feed : Feeds, count : 0..MaxCount]
    /\ fn_out = <<>>

FeedCall ==
    /\ fn_pc = "call"
    /\ fn_out' = get_latest_news_from_rss(fn_in.feed, fn_in.count)
    /\ fn_pc' = "returned"
    /\ UNCHANGED <<main_vars, ext_pc, ext_page, ext_result, fn_in>>

NextFeed == FeedCall

SpecFeed == InitFeed /\ [][NextFeed]_vars

\* ----------------------------------- summarize_and_add_furigana, by itself
\* The article_text values a call by itself is given: None, "", or a text.
SummarizerTexts ==
    {None} \cup {Some(Str("body", 0, n)) : n \in {0, 1, MAX_CHARS, 2 * MAX_CHARS}}

\* One call of summarize_and_add_furigana(title, article_text).
InitSum ==
    /\ pc = "OFF"
    /\ LINE_USER_ID = FALSE
    /\ LINE_CHANNEL_ACCESS_TOKEN = FALSE
    /\ MainIdle
    /\ ext_pc = "off"
    /\ ext_page = Page("ok", <<>>, FALSE, <<>>, FALSE, 0, 0)
    /\ ext_result = None
    /\ fn_pc = "call"
    /\ fn_in \in [title : {Str("title", 1, n) : n \in TitleLens},
                  text : SummarizerTexts,
                  api : ApiOutcomes(0)]
    /\ fn_out = <<>>

SumCall ==
    /\ fn_pc = "call"
    /\ fn_out' = summarize_and_add_furigana(fn_in.title, fn_in.text, fn_in.api)
    /\ fn_pc' = "returned"
    /\ UNCHANGED <<main_vars, ext_pc, ext_page, ext_result, fn_in>>

NextSum == SumCall

SpecSum == InitSum /\ [][NextSum]_vars

\* -------------------------------------------- send_line_message, by itself
\* Messages a call by itself is given.
SendMessages ==
    {FallbackMessage}
    \cup {Str("msg", 0, n) : n \in {1, DIGEST_LIMIT, DIGEST_LIMIT + LEN_TRUNC}}

\* One call of send_line_message(user_id, message, token).
InitSend ==
    /\ pc = "OFF"
    /\ LINE_USER_ID = FALSE
    /\ LINE_CHANNEL_ACCESS_TOKEN = FALSE
    /\ MainIdle
    /\ ext_pc = "off"
    /\ ext_page = Page("ok", <<>>, FALSE, <<>>, FALSE, 0, 0)
    /\ ext_result = None
    /\ fn_pc = "call"
    /\ fn_in \in [user_id : BOOLEAN, token : BOOLEAN,
                  message : SendMessages, http : HttpOutcomes]
    /\ fn_out = <<>>

SendCall ==
    /\ fn_pc = "call"
    /\ fn_out' = send_line_message(fn_in.user_id, fn_in.message, fn_in.token, fn_in.http)
    /\ fn_pc' = "returned"
    /\ UNCHANGED <<main_vars, ext_pc, ext_page, ext_result, fn_in>>

NextSend == SendCall

SpecSend == InitSend /\ [][NextSend]_vars

\* ----------------------------------------------------------------- claims
N == Len(news_list)

ItemIdx == 0..(N - 1)

\* The run took the digest path (the feed gave at least one item).
DigestPath == news_list # <<>>

\* Item k's block has been appended.
BlockDone(k) == Count("block", k) = 1

\* The digest as assembled from the blocks, before any cut.
Assembled == AssembleDigest(N, all_summaries)

\* C1: in every run of main() the Notifier is invoked exactly once: no
\* send before the run's last step, one send once the run is over, never
\* two, whatever the feed, the pages and the API did.
C1_NotifierExactlyOnce ==
    /\ Len(sent) = CountAll("send")
    /\ pc = "DONE" => Len(sent) = 1
    /\ pc # "DONE" => Len(sent) = 0

C1_Witness ==
    /\ pc = "DONE"
    /\ N = COUNT
    /\ Count("absent", 0) = 1
    /\ Count("model", 1) = 1
    /\ Len(sent) = 1
    /\ send_result = "failed"

\* C2: when the feed gives no item, the run makes one Notifier call with
\* the fixed fallback text, no extraction and no summarization call, and
\* ends without assembling a digest.
C2_EmptyFeedFallback ==
    (~DigestPath /\ pc # "FETCH_FEED") =>
        /\ pc \in {"NOTIFY_FAILURE", "DONE"}
        /\ CountAll("extract") = 0
        /\ CountAll("summarize") = 0
        /\ CountAll("model") = 0
        /\ all_summaries = <<>>
        /\ final_message = <<>>
        /\ pc = "DONE" => sent = <<FallbackMessage>>
        /\ pc = "NOTIFY_FAILURE" => sent = <<>>

C2_Witness ==
    /\ pc = "DONE"
    /\ ~DigestPath
    /\ sent = <<FallbackMessage>>
    /\ posted = <<FallbackMessage>>

\* C3: an item whose extraction returned absent gets a block that holds
\* the extraction-failure notice, the item's title and (once complete) its
\* url, and the Summarizer is never invoked for it.
C3_AbsentExtraction ==
    \A k \in ItemIdx :
        Count("absent", k) = 1 =>
            /\ Count("summarize", k) = 0
            /\ Count("model", k) = 0
            /\ (k = i /\ pc = "APPEND") =>
                   /\ Includes(article_summary_block, ScrapeErrorNotice)
                   /\ Includes(article_summary_block, news_list[k + 1].title)
                   /\ ~sum_arg.called
            /\ BlockDone(k) =>
                   /\ Includes(all_summaries[k + 1], ScrapeErrorNotice)
                   /\ Includes(all_summaries[k + 1], news_list[k + 1].title)
                   /\ Includes(all_summaries[k + 1], news_list[k + 1].url)

C3_Witness ==
    /\ pc = "DONE"
    /\ N = COUNT
    /\ Count("absent", 1) = 1
    /\ Count("summarize", 0) = 1
    /\ Count("summarize", 2) = 1
    /\ Includes(all_summaries[2], ScrapeErrorNotice)

\* C4: with N >= 1 items, whatever fails, every item is processed: once
\* the loop is over the extractor was called once per item, N blocks were
\* accumulated in feed order, and the notification is attempted.
C4_EveryItemProcessed ==
    /\ (DigestPath /\ pc \in {"ASSEMBLE", "NOTIFY", "DONE"}) =>
           /\ Len(all_summaries) = N
           /\ \A k \in ItemIdx :
                  /\ Count("extract", k) = 1
                  /\ BlockDone(k)
                  /\ SubSeq(all_summaries[k + 1], 1,
                            Len(BlockHeader(k, news_list[k + 1].title)))
                       = BlockHeader(k, news_list[k + 1].title)
    /\ (DigestPath /\ pc = "DONE") => Len(sent) = 1
    /\ \A k \in ItemIdx : Count("extract", k) <= 1

\* Item 0's extraction failed, item 1's API call raised, item 2 went through.
C4_Witness ==
    /\ pc = "DONE"
    /\ N = COUNT
    /\ Count("absent", 0) = 1
    /\ Count("model", 1) = 1
    /\ Includes(all_summaries[2], Lit("api_err", LEN_API_ERR))
    /\ Count("model", 2) = 1
    /\ Len(all_summaries) = COUNT
    /\ Len(sent) = 1

\* C5 as stated: on the digest path the message handed to the Notifier is
\* never longer than DIGEST_LIMIT characters.
C5_Original ==
    DigestPath => \A m \in DOMAIN sent : StrLen(sent[m]) <= DIGEST_LIMIT

\* C5 amended: on the digest path the message handed to the Notifier is
\* never longer than DIGEST_LIMIT characters plus the truncation marker; it
\* is longer than DIGEST_LIMIT only when the digest was cut.
C5_LengthBound ==
    DigestPath =>
        /\ \A m \in DOMAIN sent :
               /\ StrLen(sent[m]) <= DIGEST_LIMIT + LEN_TRUNC
               /\ StrLen(Assembled) <= DIGEST_LIMIT => StrLen(sent[m]) <= DIGEST_LIMIT
        /\ pc \in {"NOTIFY", "DONE"} => StrLen(final_message) <= DIGEST_LIMIT + LEN_TRUNC

C5_Witness ==
    /\ pc = "DONE"
    /\ DigestPath
    /\ Len(sent) = 1
    /\ StrLen(sent[1]) = DIGEST_LIMIT + LEN_TRUNC

\* C6: a digest longer than DIGEST_LIMIT is sent as its first DIGEST_LIMIT
\* characters followed by the truncation marker; a digest of DIGEST_LIMIT
\* characters or fewer is sent unchanged, with no marker.
C6_TruncationExact ==
    (DigestPath /\ pc = "DONE") =>
        /\ Len(sent) = 1
        /\ StrLen(Assembled) > DIGEST_LIMIT =>
               /\ sent[1] = Slice(Assembled, DIGEST_LIMIT) \o TruncationMarker
               /\ StrLen(Slice(Assembled, DIGEST_LIMIT)) = DIGEST_LIMIT
        /\ StrLen(Assembled) <= DIGEST_LIMIT =>
               /\ sent[1] = Assembled
               /\ ~Includes(sent[1], TruncationMarker)

C6_Witness ==
    /\ pc = "DONE"
    /\ N = COUNT
    /\ StrLen(Assembled) > DIGEST_LIMIT
    /\ sent = <<Slice(Assembled, DIGEST_LIMIT) \o TruncationMarker>>

\* A digest of exactly DIGEST_LIMIT characters is reached and sent as it is.
C6_BoundaryReached ==
    /\ pc = "DONE"
    /\ StrLen(Assembled) = DIGEST_LIMIT
    /\ sent = <<Assembled>>

\* C7 as stated: on the digest path the message passed to the Notifier
\* includes the title and the url of every item of the feed.
C7_Original ==
    (DigestPath /\ pc = "DONE") =>
        \A k \in ItemIdx :
            /\ Includes(sent[1], news_list[k + 1].title)
            /\ Includes(sent[1], news_list[k + 1].url)

\* C7 amended: the assembled digest includes the title and the url of
\* every item, failed or not; the message passed to the Notifier includes
\* them all whenever the assembled digest is DIGEST_LIMIT characters or
\* shorter (a longer digest is cut, and what lies past the cut is lost).
C7_TitlesAndUrls ==
    (DigestPath /\ pc = "DONE") =>
        /\ \A k \in ItemIdx :
               /\ Includes(Assembled, news_list[k + 1].title)
               /\ Includes(Assembled, news_list[k + 1].url)
        /\ StrLen(Assembled) <= DIGEST_LIMIT =>
               \A k \in ItemIdx :
                   /\ Includes(sent[1], news_list[k + 1].title)
                   /\ Includes(sent[1], news_list[k + 1].url)

C7_Witness ==
    /\ pc = "DONE"
    /\ N = COUNT
    /\ Count("absent", 1) = 1
    /\ Count("model", 0) = 1
    /\ Includes(all_summaries[3], Lit("api_err", LEN_API_ERR))
    /\ StrLen(Assembled) <= DIGEST_LIMIT
    /\ \A k \in ItemIdx : Includes(sent[1], news_list[k + 1].url)

\* C8 as stated: the Summarizer is invoked for an item exactly when the
\* extractor returned a text, the empty text included.
C8_Original ==
    \A k \in ItemIdx :
        BlockDone(k) =>
            Count("summarize", k) = (IF Count("absent", k) = 1 THEN 0 ELSE 1)

\* C8 amended: the Summarizer is invoked for an item exactly when the
\* extractor returned a non-empty text: once, with the item's title and
\* that text, its result embedded in the block after the header.  An empty
\* text is handled like absent: no Summarizer call, the failure notice.
C8_SummarizerIffText ==
    /\ \A k \in ItemIdx :
           /\ BlockDone(k) =>
                  Count("summarize", k) = (IF Count("text", k) = 1 THEN 1 ELSE 0)
           /\ Count("summarize", k) <= Count("text", k)
           /\ (BlockDone(k) /\ Count("empty", k) = 1) =>
                  Includes(all_summaries[k + 1], ScrapeErrorNotice)
    /\ pc = "APPEND" =>
           /\ sum_arg.called <=> Count("text", i) = 1
           /\ sum_arg.called =>
                  /\ sum_arg.title = news_list[i + 1].title
                  /\ sum_arg.text = article_text
                  /\ sum_arg.text.some /\ sum_arg.text.text # <<>>
                  /\ \E api \in ApiOutcomes(i) :
                         article_summary_block =
                             BlockHeader(i, news_list[i + 1].title)
                             \o summarize_and_add_furigana(sum_arg.title, sum_arg.text, api).text

\* An item whose page gave the empty text, beside one that gave a text.
C8_Witness ==
    /\ pc = "DONE"
    /\ N >= 2
    /\ Count("empty", 0) = 1
    /\ Count("summarize", 0) = 0
    /\ Count("text", 1) = 1
    /\ Count("summarize", 1) = 1

\* The text the strategies of lines 87-99 extract from a page that loaded.
ExtractedText(page) ==
    IF SelectParagraphs(page) = <<>> THEN FallbackText(page)
    ELSE JoinParagraphs(SelectParagraphs(page))

\* C9: an extracted text longer than MAX_CHARS is returned as its first
\* MAX_CHARS characters followed by the ellipsis; a text of MAX_CHARS
\* characters or fewer is returned unchanged.
C9_ExtractionCap ==
    (ext_pc = "returned" /\ ext_page.status = "ok") =>
        LET t == ExtractedText(ext_page)
        IN ext_result =
               Some(IF StrLen(t) > MAX_CHARS
                    THEN Slice(t, MAX_CHARS) \o Lit("...", LEN_ELLIPSIS)
                    ELSE t)

\* C10: whichever strategy produced it, the text handed to the Summarizer
\* is never longer than MAX_CHARS characters plus the ellipsis.
C10_PromptBounded ==
    sum_arg.called => StrLen(sum_arg.text.text) <= MAX_CHARS + LEN_ELLIPSIS

\* The entries of the feed a call by itself reads: the first count, or all.
FnRead == 1..Min(fn_in.count, Len(fn_in.feed.entries))

\* C11 as stated: for an n-entry feed the call returns the first
\* min(count, n) entries as NewsItems, in feed order.
C11_Original ==
    (fn_pc = "returned" /\ ~fn_in.feed.raises) =>
        /\ Len(fn_out) = Min(fn_in.count, Len(fn_in.feed.entries))
        /\ \A k \in DOMAIN fn_out :
               /\ fn_out[k].title = Str("title", k, fn_in.feed.entries[k].title_len)
               /\ fn_out[k].url = Str("url", k, UrlLen)

\* C11 amended: for an n-entry feed that parses and whose first
\* min(count, n) entries all carry a title and a link, the call returns
\* exactly those entries as NewsItems, in feed order, none twice, none
\* left out; with count = 3 and n >= 3, exactly the first 3.
C11_FirstEntriesInOrder ==
    (/\ fn_pc = "returned"
     /\ ~fn_in.feed.raises
     /\ \A k \in FnRead : ~fn_in.feed.entries[k].bad) =>
        /\ Len(fn_out) = Min(fn_in.count, Len(fn_in.feed.entries))
        /\ \A k \in DOMAIN fn_out :
               /\ fn_out[k].title = Str("title", k, fn_in.feed.entries[k].title_len)
               /\ fn_out[k].url = Str("url", k, UrlLen)
        /\ (fn_in.count = COUNT /\ Len(fn_in.feed.entries) >= COUNT) =>
               Len(fn_out) = COUNT

\* A feed of more than COUNT entries (the one past COUNT unreadable), read
\* with count = COUNT.
C11_Witness ==
    /\ fn_pc = "returned"
    /\ fn_in.count = COUNT
    /\ Len(fn_in.feed.entries) = COUNT + 1
    /\ fn_in.feed.entries[COUNT + 1].bad
    /\ Len(fn_out) = COUNT
    /\ \A k \in 1..COUNT : fn_out[k].title[1].idx = k

\* The feed could not be read: parse() raised, there was no entry, or an
\* entry read lacked title or link.
FeedFailed ==
    Count("feed_raised", 0) + Count("feed_empty", 0) + Count("feed_bad_entry", 0) = 1

\* C12: get_latest_news_from_rss does not fail: on a parse failure, an
\* empty feed or an error while reading an entry it returns the empty
\* list, never a partial one, and main then takes the fallback path.
C12_FeedFailureGivesEmpty ==
    pc # "FETCH_FEED" =>
        /\ CountAll("feed") = 1
        /\ FeedFailed \/ Count("feed_read", 0) = 1
        /\ FeedFailed =>
               /\ news_list = <<>>
               /\ pc \in {"NOTIFY_FAILURE", "DONE"}
               /\ CountAll("extract") = 0
               /\ pc = "DONE" => sent = <<FallbackMessage>>
        /\ Count("feed_read", 0) = 1 => news_list # <<>>

C12_Witness ==
    /\ pc = "DONE"
    /\ Count("feed_bad_entry", 0) = 1
    /\ news_list = <<>>
    /\ sent = <<FallbackMessage>>

\* C13: when the API call of item k fails, the Summarizer neither raises
\* nor retries: one model call, the run goes on to complete the block, and
\* the block is the header with the title, the degraded text carrying the
\* error detail, and the url line.
C13_DegradedSummary ==
    \A k \in ItemIdx :
        Count("api_raised", k) = 1 =>
            /\ Count("summarize", k) = 1
            /\ Count("model", k) = 1
            /\ ~BlockDone(k) => (pc = "APPEND" /\ i = k)
            /\ BlockDone(k) =>
                   all_summaries[k + 1] =
                       BlockHeader(k, news_list[k + 1].title)
                       \o Lit("api_err", LEN_API_ERR) \o Str("err", k, ErrLen)
                       \o UrlLine(news_list[k + 1].url)

C13_Witness ==
    /\ pc = "DONE"
    /\ N = COUNT
    /\ Count("api_raised", 1) = 1
    /\ Includes(all_summaries[2], Str("err", 1, ErrLen))
    /\ Includes(all_summaries[2], news_list[2].url)
    /\ Count("api_raised", 0) = 0
    /\ Count("model", 2) = 1

\* C14: summarize_and_add_furigana makes no call of the external model
\* when the text is absent or empty, and returns the fixed sentinel; it
\* makes exactly one call otherwise; it never makes more than one.
C14_ModelCalledAtMostOnce ==
    fn_pc = "returned" =>
        /\ fn_out.model_calls <= 1
        /\ (~fn_in.text.some \/ fn_in.text.text = <<>>) =>
               /\ fn_out.model_calls = 0
               /\ fn_out.text = Lit("sentinel", LEN_SENTINEL)
        /\ (fn_in.text.some /\ fn_in.text.text # <<>>) =>
               /\ fn_out.model_calls = 1
               /\ fn_out.text # Lit("sentinel", LEN_SENTINEL)

\* Called with the empty text, while the API would have raised.
C14_Witness ==
    /\ fn_pc = "returned"
    /\ fn_in.text = Some(<<>>)
    /\ fn_in.api.kind = "raise"
    /\ fn_out.model_calls = 0
    /\ fn_out.text = Lit("sentinel", LEN_SENTINEL)

Places(ev, k) == {j \in DOMAIN log : log[j] = Event(ev, k)}

\* C16: a run over N >= 1 items sleeps N - 1 times: once after each item
\* but the last, right after that item's block was appended and before the
\* next item's extraction starts; never before the first item, after the
\* last, or on the empty-feed path.
C16_Pacing ==
    /\ ~DigestPath => CountAll("sleep") = 0
    /\ \A j \in DOMAIN log :
           log[j].ev = "sleep" =>
               /\ log[j].i \in 0..(N - 2)
               /\ Count("sleep", log[j].i) = 1
               /\ j > 1 /\ log[j - 1] = Event("block", log[j].i)
               /\ j < Len(log) => log[j + 1] = Event("extract", log[j].i + 1)
               /\ j = Len(log) => (pc = "PER_ITEM_LOOP" /\ i = log[j].i + 1)
    /\ \A k \in ItemIdx :
           (Count("extract", k) = 1 /\ k > 0) => Count("sleep", k - 1) = 1
    /\ (DigestPath /\ pc \in {"ASSEMBLE", "NOTIFY", "DONE"}) =>
           CountAll("sleep") = N - 1

C16_Witness ==
    /\ pc = "DONE"
    /\ N = COUNT
    /\ CountAll("sleep") = COUNT - 1
    /\ Count("absent", 0) = 1
    /\ log[Len(log)].ev # "sleep"

\* The events of the per-item loop.
ItemEvents ==
    {"extract", "absent", "empty", "text", "summarize", "model", "api_raised", "block"}

\* C17: one feed fetch, before every other call; item by item, the
\* extraction, then the summarization, then the block, with nothing of
\* item k + 1 before item k is complete; the send only after the last
\* item's block, and nothing but its POST after it.
C17_CallOrder ==
    /\ pc # "FETCH_FEED" => (log[1] = Event("feed", 0) /\ CountAll("feed") = 1)
    /\ pc = "FETCH_FEED" => log = <<>>
    /\ \A j, l \in DOMAIN log :
           (/\ log[j].ev \in ItemEvents
            /\ log[l].ev \in ItemEvents
            /\ log[j].i < log[l].i) => j < l
    /\ \A k \in ItemIdx :
           /\ Count("extract", k) <= 1
           /\ Count("summarize", k) <= 1
           /\ Count("block", k) <= 1
           /\ \A e \in Places("extract", k), m \in Places("summarize", k) : e < m
           /\ \A m \in Places("summarize", k), b \in Places("block", k) : m < b
           /\ \A m \in Places("model", k), b \in Places("block", k) : m < b
           /\ \A e \in Places("extract", k), b \in Places("block", k) : e < b
           /\ Count("summarize", k) = 1 => Count("extract", k) = 1
           /\ Count("block", k) = 1 => Count("extract", k) = 1
    /\ \A j \in DOMAIN log :
           log[j].ev = "send" =>
               /\ CountAll("send") = 1
               /\ DigestPath =>
                      (Count("block", N - 1) = 1 /\ \A b \in Places("block", N - 1) : b < j)
               /\ \A l \in DOMAIN log : l > j => log[l] = Event("post", 0)
               /\ \A l \in DOMAIN log : log[l].ev \in ItemEvents \cup {"sleep", "feed"} => l < j

C17_Witness ==
    /\ pc = "DONE"
    /\ N = COUNT
    /\ \A k \in ItemIdx : Count("summarize", k) = 1 /\ Count("model", k) = 1
    /\ CountAll("post") = 1
    /\ log[Len(log)] = Event("post", 0)
    /\ log[1] = Event("feed", 0)

\* C18: the run reaches DONE and stays there with exactly one message
\* handed to the Notifier; the step that sends is the run's last step
\* whatever the Notifier returns, it makes that one call and at most its
\* one POST, and nothing happens after DONE.
C18_TerminatesAfterOneAttempt ==
    /\ <>[](pc = "DONE" /\ Len(sent) = 1 /\ send_result \in {"ok", "failed"})
    /\ [](sent # <<>> => (pc = "DONE" /\ Len(sent) = 1 /\ Len(posted) <= 1))
    /\ [][/\ pc # "DONE"
          /\ (sent' # sent) =>
                 /\ pc' = "DONE"
                 /\ \/ log' = log \o <<Event("send", 0)>>
                    \/ log' = log \o <<Event("send", 0), Event("post", 0)>>]_vars

C18_Witness ==
    /\ pc = "DONE"
    /\ send_result = "failed"
    /\ LINE_USER_ID /\ LINE_CHANNEL_ACCESS_TOKEN
    /\ DigestPath
    /\ Len(sent) = 1 /\ Len(posted) = 1
    /\ log[Len(log)] = Event("post", 0)

\* The block of item k as a function of its index, its title and url, and
\* what its own extraction and summarization gave.
BlockOf(k, item, outcome) ==
    BlockHeader(k, item.title)
    \o (IF outcome.kind = "text" THEN outcome.summary ELSE ScrapeErrorNotice)
    \o UrlLine(item.url)

\* C19: every block appended is BlockOf its own item's index, title, url
\* and outcomes, nothing of another item enters it, and a block once
\* appended is never changed by a later item; so two runs over the same
\* feed that differ in the outcomes of one item have the same block for
\* every other item.
C19_PerItemIndependence ==
    /\ [](/\ Len(all_summaries) <= Len(outcomes)
          /\ Len(outcomes) <= N
          /\ \A k \in ItemIdx :
                 k + 1 <= Len(all_summaries) =>
                     all_summaries[k + 1] = BlockOf(k, news_list[k + 1], outcomes[k + 1]))
    /\ [][/\ Len(all_summaries') >= Len(all_summaries)
          /\ \A k \in DOMAIN all_summaries :
                 /\ all_summaries'[k] = all_summaries[k]
                 /\ outcomes'[k] = outcomes[k]]_vars

\* Three blocks with three different outcomes: a summary, a failed
\* extraction, a failed API call.
C19_Witness ==
    /\ pc = "DONE"
    /\ Len(all_summaries) = COUNT
    /\ outcomes[1].kind = "text" /\ Count("api_raised", 0) = 0
    /\ outcomes[2].kind \in {"absent", "empty"}
    /\ outcomes[3].kind = "text" /\ Count("api_raised", 2) = 1
    /\ all_summaries[1] = BlockOf(0, news_list[1], outcomes[1])
    /\ all_summaries[2] = BlockOf(1, news_list[2], outcomes[2])
    /\ all_summaries[3] = BlockOf(2, news_list[3], outcomes[3])

\* C20: every message handed to the Notifier, the fallback message and
\* the digest with or without the truncation marker, and so every message
\* posted, is at most LINE_MAX characters long.
C20_PlatformBound ==
    /\ \A m \in DOMAIN sent : StrLen(sent[m]) <= LINE_MAX
    /\ \A m \in DOMAIN posted : StrLen(posted[m]) <= LINE_MAX
    /\ pc = "NOTIFY" => StrLen(final_message) <= LINE_MAX
    /\ pc = "NOTIFY_FAILURE" => StrLen(FallbackMessage) <= LINE_MAX

\* A digest longer than LINE_MAX before the cut was sent, and posted.
C20_Witness ==
    /\ pc = "DONE"
    /\ DigestPath
    /\ StrLen(Assembled) > LINE_MAX
    /\ Includes(sent[1], TruncationMarker)
    /\ StrLen(sent[1]) > DIGEST_LIMIT
    /\ posted = sent

\* The fallback message was sent, within the bound.
C20_FallbackSent ==
    /\ pc = "DONE"
    /\ ~DigestPath
    /\ sent = <<FallbackMessage>>

====
